---- MODULE Spec2Model ----
(***************************************************************************)
(* FoodExpress (src/Food_delivery.py): the JSON record store, the account  *)
(* facade, the session state of the main window (page, current user,       *)
(* cart) and the order workflow, as a state machine of the handlers.       *)
(*                                                                         *)
(* Data representation.  Passwords are sequences of one-character strings, *)
(* so that the regular expression of register_user is computed character   *)
(* by character.  Logins, addresses and labels are strings compared for    *)
(* exact equality, as Python's == does.  Restaurant and dish names are      *)
(* sequences of characters too (search looks for substrings in them).      *)
(* A JSON file is represented by its document: the list of records with    *)
(* every character-sequence text in its escaped JSON form; load decodes    *)
(* it.  `files` is the set of files that exist.                            *)
(* The fields first_name, last_name, birth_date and email are copied       *)
(* verbatim by the code and read by no condition except the blank-field    *)
(* check of handle_register, which takes them as one input.  The order's   *)
(* 'date' (wall clock) is left out of the order record.                    *)
(***************************************************************************)
EXTENDS Integers, Sequences, FiniteSets, TLC

VARIABLES
    files,          \* subset of FileNames: the JSON files that exist on disk
    usersFile,      \* users.json: document of the account records
    restaurantsFile,\* restaurants.json: document of the restaurant records
    ordersFile,     \* orders.json: document of the order records
    running,        \* the process is alive (between start and window close)
    db_instances,   \* Database objects this process has created
    page,           \* stacked_widget's current page
    current_user,   \* FoodDeliveryApp.current_user (NoUser is Python's None)
    current_restaurant, \* FoodDeliveryApp.current_restaurant (id, 0 is None)
    cart,           \* FoodDeliveryApp.cart: sequence of cart lines
    msg,            \* message returned / shown in a dialog by the last handler
    registered,     \* history: <<login, password, role carried>> of every
                    \* candidate register_user accepted
    sort_index,     \* sort_combo.currentIndex(): 0 by name, 1 by rating
    restaurant_list,\* restaurant_list widget: ids of the rows, top to bottom
    search_input,   \* search_input.text()
    search_list,    \* search_results_list widget: shown or hidden, its rows
    observers,      \* Subject._observers of search_subject
    subject_results,\* SearchSubject.results
    calls,          \* history: the update calls made by the last search or
                    \* publish, in the order they were made
    detached,       \* history: the listeners whose last attach or detach
                    \* call was a detach that returned
    writer,         \* concurrent writers: each one's step and local copy
    reported        \* history: the logins the concurrent writers reported
                    \* as registered, how many registers and confirms they
                    \* reported as done, and whether two of them ever had a
                    \* loaded copy at the same time

vars == <<files, usersFile, restaurantsFile, ordersFile, running,
          db_instances, page, current_user, current_restaurant, cart, msg,
          registered, sort_index, restaurant_list, search_input, search_list,
          observers, subject_results, calls, detached, writer,
          reported>>

store == <<files, usersFile, restaurantsFile, ordersFile>>
session == <<page, current_user, current_restaurant, cart>>
view == <<sort_index, restaurant_list, search_input, search_list>>
subject == <<observers, subject_results, calls, detached>>
writers == <<writer, reported>>

-----------------------------------------------------------------------------
(* Bounds of the model *)

\* longest candidate password built from PwChars
MaxPwLen == 2
\* most cart lines, and most lines held by the persisted orders together
MaxLines == 2
\* most restaurants of a catalog of the search and listing model
MaxRestaurants == 3
\* most listeners attached to the notifier at once
MaxObservers == 3

-----------------------------------------------------------------------------
(* Characters and input sets *)

Letters ==
    {"a","b","c","d","e","f","g","h","i","j","k","l","m",
     "n","o","p","q","r","s","t","u","v","w","x","y","z",
     "A","B","C","D","E","F","G","H","I","J","K","L","M",
     "N","O","P","Q","R","S","T","U","V","W","X","Y","Z"}

Digits == {"0","1","2","3","4","5","6","7","8","9"}

Whitespace == {" ", "\n", "\t", "\r"}

\* characters a candidate password is drawn from: a letter and a line
\* break; further passwords have an upper-case letter and a digit, or a blank
PwChars == {"a", "\n"}

Passwords ==
    UNION {[1..n -> PwChars] : n \in 0..MaxPwLen} \cup
    {<<"Z", "7">>, <<" ">>, <<"a", " ">>}

AdminLogin == "admin"
AdminPassword == <<"a","d","m","i","n","1","2","3">>
AdminAddress == "Admin Office"

Logins == {"alice", "Alice", AdminLogin}
Addresses == {"Main St 1"}
NoRole == "-"   \* the candidate dict has no 'role' key
CandidateRoles == {NoRole, "admin"}

\* what the repeat field holds: the password itself or another text
Repeats(p) == {p, <<"a">>}

\* every password without a 'role' key; a 'role' key on the candidates of
\* one password
Candidates ==
    UNION {{[login |-> l, password |-> p, repeat_password |-> r,
             address |-> a, role |-> ro] :
                l \in Logins, r \in Repeats(p), a \in Addresses,
                ro \in IF p = <<"Z", "7">> THEN CandidateRoles
                       ELSE {NoRole}} : p \in Passwords}

\* the candidates of the full program model: what UserBuilder builds from a
\* few texts typed into the form (it never sets 'role')
FormLogins == {"alice", "Alice", AdminLogin, ""}
FormPasswords == {<<"a","7">>, <<"a"," ">>}
FormAddresses == {"Main St 1", ""}

FormCandidates ==
    {[login |-> l, password |-> p, repeat_password |-> r,
      address |-> a, role |-> NoRole] :
        l \in FormLogins, p \in FormPasswords, r \in FormPasswords,
        a \in FormAddresses}

-----------------------------------------------------------------------------
(* Record store: class Database *)

FileNames == {"users.json", "restaurants.json", "orders.json"}

\* Database(): __new__ builds the object (and runs _init_database) only
\* while _instance is None; the number of objects built after the call
Database(instances) == IF instances = 0 THEN 1 ELSE instances

\* initialize_files: every missing file is created holding []
initialize_files(fs) == fs \cup FileNames

\* faulty variant: initialize_files rewrites every file with []
initial_contents_truncate(fs, name, contents) == <<>>

\* the contents a file has after initialize_files: kept if it existed
initial_contents(fs, name, contents) ==
    IF name \in fs THEN contents ELSE <<>>

\* json.dump of a text: the characters JSON writes as an escape
json_escape_char(ch) ==
    CASE ch = "\"" -> <<"\\", "\"">>
      [] ch = "\\" -> <<"\\", "\\">>
      [] ch = "\n" -> <<"\\", "n">>
      [] ch = "\r" -> <<"\\", "r">>
      [] ch = "\t" -> <<"\\", "t">>
      [] OTHER -> <<ch>>

RECURSIVE json_escape(_)
json_escape(s) ==
    IF s = <<>> THEN <<>>
    ELSE json_escape_char(Head(s)) \o json_escape(Tail(s))

\* json.load of a text: the character an escape stands for
json_unescape_char(ch) ==
    CASE ch = "n" -> "\n"
      [] ch = "r" -> "\r"
      [] ch = "t" -> "\t"
      [] OTHER -> ch

\* faulty variant: the escapes are not decoded
json_unescape_raw(t) == t

RECURSIVE json_unescape(_)
json_unescape(t) ==
    IF t = <<>> THEN <<>>
    ELSE IF Head(t) = "\\" /\ Len(t) >= 2
    THEN <<json_unescape_char(t[2])>> \o json_unescape(Tail(Tail(t)))
    ELSE <<Head(t)>> \o json_unescape(Tail(t))

\* save_users / load_users: the document of a list of account records
save_users(users) ==
    [i \in 1..Len(users) |->
        [users[i] EXCEPT !.password = json_escape(@)]]

json_load_users(document) ==
    [i \in 1..Len(document) |->
        [document[i] EXCEPT !.password = json_unescape(@)]]

\* save_restaurants / load_restaurants: the names of the restaurants and of
\* their dishes
save_restaurants(restaurants) ==
    [i \in 1..Len(restaurants) |->
        [restaurants[i] EXCEPT
            !.name = json_escape(@),
            !.menu = [k \in 1..Len(@) |->
                         [@[k] EXCEPT !.name = json_escape(@)]]]]

json_load_restaurants(document) ==
    [i \in 1..Len(document) |->
        [document[i] EXCEPT
            !.name = json_unescape(@),
            !.menu = [k \in 1..Len(@) |->
                         [@[k] EXCEPT !.name = json_unescape(@)]]]]

\* save_orders / load_orders: the names carried by the lines of each order
save_orders(orders) ==
    [i \in 1..Len(orders) |->
        [orders[i] EXCEPT
            !.items = [k \in 1..Len(@) |->
                          [@[k] EXCEPT !.name = json_escape(@),
                                       !.restaurant = json_escape(@)]]]]

json_load_orders(document) ==
    [i \in 1..Len(document) |->
        [document[i] EXCEPT
            !.items = [k \in 1..Len(@) |->
                          [@[k] EXCEPT !.name = json_unescape(@),
                                       !.restaurant = json_unescape(@)]]]]

load_users == json_load_users(usersFile)
load_orders == json_load_orders(ordersFile)
load_restaurants == json_load_restaurants(restaurantsFile)

-----------------------------------------------------------------------------
(* Accounts: AbstractUser, the creators and UserSystemFacade *)

NoUser ==
    [variant |-> "None", login |-> "", password |-> <<>>,
     address |-> "", role |-> ""]

\* AbstractUser.__init__ through RegularUserCreator / AdminUserCreator
create_user(variant, user_data) ==
    [variant |-> variant, login |-> user_data.login,
     password |-> user_data.password, address |-> user_data.address,
     role |-> user_data.role]

\* re.match(r'^[A-Za-z0-9]+$', password): one or more class characters from
\* the start; '$' matches at the end of the string and also just before a
\* line break that ends the string
InClass(ch) == ch \in Letters \cup Digits

AllInClass(s) == \A i \in 1..Len(s) : InClass(s[i])

re_match(password) ==
    \/ Len(password) >= 1 /\ AllInClass(password)
    \/ /\ Len(password) >= 2
       /\ password[Len(password)] = "\n"
       /\ AllInClass(SubSeq(password, 1, Len(password) - 1))

login_exists(users, login) ==
    \E i \in 1..Len(users) : users[i].login = login

\* faulty variant: the role the candidate carried is kept
new_record_keeps_role(user_data) ==
    [login |-> user_data.login, password |-> user_data.password,
     address |-> user_data.address,
     role |-> IF user_data.role = NoRole THEN "user" ELSE user_data.role]

\* the record appended: user_data after pop('repeat_password') and
\* user_data['role'] = 'user'
new_record(user_data) ==
    [login |-> user_data.login, password |-> user_data.password,
     address |-> user_data.address, role |-> "user"]

\* faulty variant: success is reported but the list is not saved
register_user_unsaved(users, user_data) ==
    IF \/ login_exists(users, user_data.login)
       \/ user_data.password # user_data.repeat_password
       \/ ~re_match(user_data.password)
    THEN [ok |-> FALSE, message |-> "refused", saved |-> FALSE,
          users |-> users, user_data |-> user_data]
    ELSE [ok |-> TRUE, message |-> "registered", saved |-> FALSE,
          users |-> users, user_data |-> new_record(user_data)]

\* faulty variant: the repeat field is compared before the login is looked up
register_user_mismatch_first(users, user_data) ==
    IF user_data.password # user_data.repeat_password
    THEN [ok |-> FALSE, message |-> "passwords differ", saved |-> FALSE,
          users |-> users, user_data |-> user_data]
    ELSE IF login_exists(users, user_data.login)
    THEN [ok |-> FALSE, message |-> "login exists", saved |-> FALSE,
          users |-> users, user_data |-> user_data]
    ELSE IF ~re_match(user_data.password)
    THEN [ok |-> FALSE, message |-> "password characters", saved |-> FALSE,
          users |-> users, user_data |-> user_data]
    ELSE [ok |-> TRUE, message |-> "registered", saved |-> TRUE,
          users |-> Append(users, new_record(user_data)),
          user_data |-> new_record(user_data)]

\* faulty variant: the repeat field is popped and the role set before the
\* checks
register_user_pops_first(users, user_data) ==
    IF login_exists(users, user_data.login)
    THEN [ok |-> FALSE, message |-> "login exists", saved |-> FALSE,
          users |-> users, user_data |-> new_record(user_data)]
    ELSE IF user_data.password # user_data.repeat_password
    THEN [ok |-> FALSE, message |-> "passwords differ", saved |-> FALSE,
          users |-> users, user_data |-> new_record(user_data)]
    ELSE IF ~re_match(user_data.password)
    THEN [ok |-> FALSE, message |-> "password characters", saved |-> FALSE,
          users |-> users, user_data |-> new_record(user_data)]
    ELSE [ok |-> TRUE, message |-> "registered", saved |-> TRUE,
          users |-> Append(users, new_record(user_data)),
          user_data |-> new_record(user_data)]

\* register_user: what it returns (ok, message), the list it saves
\* (saved = FALSE: save_users is not called) and the caller's dict
\* user_data as the call leaves it (the dict is changed in place only after
\* the three checks, and is then the very record appended)
register_user(users, user_data) ==
    IF login_exists(users, user_data.login)
    THEN [ok |-> FALSE, message |-> "login exists", saved |-> FALSE,
          users |-> users, user_data |-> user_data]
    ELSE IF user_data.password # user_data.repeat_password
    THEN [ok |-> FALSE, message |-> "passwords differ", saved |-> FALSE,
          users |-> users, user_data |-> user_data]
    ELSE IF ~re_match(user_data.password)
    THEN [ok |-> FALSE, message |-> "password characters", saved |-> FALSE,
          users |-> users, user_data |-> user_data]
    ELSE [ok |-> TRUE, message |-> "registered", saved |-> TRUE,
          users |-> Append(users, new_record(user_data)),
          user_data |-> new_record(user_data)]

Matches(users, login, password) ==
    {i \in 1..Len(users) :
        users[i].login = login /\ users[i].password = password}

First(S) == CHOOSE i \in S : \A j \in S : i <= j

\* faulty variant: the password is not compared
login_user_by_login(users, login, password) ==
    LET m == {i \in 1..Len(users) : users[i].login = login} IN
    IF m = {} THEN NoUser
    ELSE LET user_data == users[First(m)] IN
         IF user_data.role = "admin"
         THEN create_user("AdminUser", user_data)
         ELSE create_user("RegularUser", user_data)

\* login_user: the first record with that login and password
login_user(users, login, password) ==
    LET m == Matches(users, login, password) IN
    IF m = {} THEN NoUser
    ELSE LET user_data == users[First(m)] IN
         IF user_data.role = "admin"
         THEN create_user("AdminUser", user_data)
         ELSE create_user("RegularUser", user_data)

\* the record seeded by the main block
admin_user ==
    [login |-> AdminLogin, password |-> AdminPassword,
     address |-> AdminAddress, role |-> "admin"]

has_admin(users) == \E i \in 1..Len(users) : users[i].role = "admin"

\* faulty variant: the administrator is appended at every start
seed_admin_always(users) == Append(users, admin_user)

\* the main block's seeding: the list users.json holds afterwards
seed_admin(users) ==
    IF ~has_admin(users) THEN Append(users, admin_user) ELSE users

-----------------------------------------------------------------------------
(* Catalog documents *)

\* a restaurants.json supplied with the deployment (no code path writes it);
\* prices in hundredths, ratings in tenths
Catalog ==
    << [id |-> 1, name |-> <<"P","i","z","z","a">>,
        description |-> "stone oven", rating |-> 47,
        menu |-> << [id |-> 1, name |-> <<"P","i","e">>,
                     description |-> "tomato", price |-> 25000],
                    [id |-> 2, name |-> <<"C","o","l","a">>,
                     description |-> "cold", price |-> 9950] >>] >>

\* the restaurants the catalogs of the search and listing model are made of:
\* names with capitals and with runs of blanks, equal ratings, a record
\* without the 'rating' key, a menu with the same dish name twice, an empty
\* menu
Dish(id, name) ==
    [id |-> id, name |-> name, description |-> "dish", price |-> 10000]

RestaurantPool ==
    { [id |-> 1, name |-> <<"A","b">>, description |-> "first",
       rating |-> 45,
       menu |-> <<Dish(1, <<"b"," ","a">>), Dish(2, <<"B">>)>>],
      [id |-> 2, name |-> <<"a"," "," "," ","b">>, description |-> "second",
       rating |-> 40,
       menu |-> <<Dish(1, <<"a","b">>)>>],
      [id |-> 3, name |-> <<"B">>, description |-> "third",
       menu |-> <<Dish(1, <<"a">>), Dish(2, <<"a">>)>>],
      [id |-> 4, name |-> <<"b","a">>, description |-> "fourth",
       rating |-> 40,
       menu |-> <<>>] }

SearchCatalogs ==
    {c \in UNION {[1..n -> RestaurantPool] : n \in 0..MaxRestaurants} :
        \A i, j \in 1..Len(c) : i # j => c[i] # c[j]}

\* the texts typed into the search field
SearchQueries ==
    {<<>>, <<" ">>, <<" "," "," ">>, <<"a">>, <<"B">>, <<"A","B">>, <<"c">>}

-----------------------------------------------------------------------------
(* Texts: str.lower, the substring test and the order of str *)

\* the characters of the model in code-point order
CodeOrder ==
    <<" ","0","1","2","3","4","5","6","7","8","9",
      "A","B","C","D","E","F","G","H","I","J","K","L","M",
      "N","O","P","Q","R","S","T","U","V","W","X","Y","Z",
      "a","b","c","d","e","f","g","h","i","j","k","l","m",
      "n","o","p","q","r","s","t","u","v","w","x","y","z">>

ord(ch) == CHOOSE i \in 1..Len(CodeOrder) : CodeOrder[i] = ch

UpperCase == {CodeOrder[i] : i \in 12..37}

\* str.lower on one character
lower_char(ch) == IF ch \in UpperCase THEN CodeOrder[ord(ch) + 26] ELSE ch

lower(s) == [i \in 1..Len(s) |-> lower_char(s[i])]

\* Python's "q in s" on texts
contains(q, s) ==
    \E k \in 0..(Len(s) - Len(q)) : SubSeq(s, k + 1, k + Len(q)) = q

\* Python's "a < b" on texts
RECURSIVE str_less(_, _)
str_less(a, b) ==
    IF b = <<>> THEN FALSE
    ELSE IF a = <<>> THEN TRUE
    ELSE IF Head(a) = Head(b) THEN str_less(Tail(a), Tail(b))
    ELSE ord(Head(a)) < ord(Head(b))

-----------------------------------------------------------------------------
(* Search: the matching loop of handle_search *)

\* restaurant.get('rating', 4.5)
DefaultRating == 45

shown_rating(restaurant) ==
    IF "rating" \in DOMAIN restaurant THEN restaurant.rating
    ELSE DefaultRating

restaurant_result(restaurant) ==
    [type |-> "restaurant", id |-> restaurant.id, name |-> restaurant.name,
     description |-> restaurant.description,
     rating |-> shown_rating(restaurant)]

dish_result(restaurant, item) ==
    [type |-> "dish", restaurant_id |-> restaurant.id,
     restaurant_name |-> restaurant.name, name |-> item.name,
     description |-> item.description, price |-> item.price]

\* the inner loop over restaurant['menu']
RECURSIVE dish_results(_, _, _)
dish_results(query, restaurant, menu) ==
    IF menu = <<>> THEN <<>>
    ELSE (IF contains(query, lower(Head(menu).name))
          THEN <<dish_result(restaurant, Head(menu))>> ELSE <<>>)
         \o dish_results(query, restaurant, Tail(menu))

\* faulty variant: the dishes are looked at only when the restaurant matched
RECURSIVE search_results_nested(_, _)
search_results_nested(query, restaurants) ==
    IF restaurants = <<>> THEN <<>>
    ELSE LET restaurant == Head(restaurants) IN
         (IF contains(query, lower(restaurant.name))
          THEN <<restaurant_result(restaurant)>>
               \o dish_results(query, restaurant, restaurant.menu)
          ELSE <<>>)
         \o search_results_nested(query, Tail(restaurants))

\* the outer loop over the restaurants: the list `results`
RECURSIVE search_results(_, _)
search_results(query, restaurants) ==
    IF restaurants = <<>> THEN <<>>
    ELSE LET restaurant == Head(restaurants) IN
         (IF contains(query, lower(restaurant.name))
          THEN <<restaurant_result(restaurant)>> ELSE <<>>)
         \o dish_results(query, restaurant, restaurant.menu)
         \o search_results(query, Tail(restaurants))

\* faulty variant: the query is stripped before the test
query_is_empty_strip(query) == \A i \in 1..Len(query) : query[i] = " "

\* "if not query"
query_is_empty(query) == query = <<>>

\* the rows update() puts into search_results_list
NothingFound == [type |-> "text", restaurant_id |-> 0]

result_row(item) ==
    [type |-> item.type,
     restaurant_id |-> IF item.type = "restaurant" THEN item.id
                       ELSE item.restaurant_id]

result_rows(results) ==
    IF results = <<>> THEN <<NothingFound>>
    ELSE [i \in 1..Len(results) |-> result_row(results[i])]

-----------------------------------------------------------------------------
(* Listing: the sort strategies and load_restaurants *)

\* x.get('rating', 4.0)
DefaultSortRating == 40

rating_key(x) == IF "rating" \in DOMAIN x THEN x.rating ELSE DefaultSortRating

\* the order sorted() puts two items in: by 'name' ascending, or by the
\* rating key with reverse=True
before(strategy, a, b) ==
    IF strategy = "name" THEN str_less(a.name, b.name)
    ELSE rating_key(a) > rating_key(b)

\* sorted() is stable: an item goes behind the items it does not precede
RECURSIVE insert(_, _, _)
insert(strategy, list, x) ==
    IF list = <<>> THEN <<x>>
    ELSE IF before(strategy, x, Head(list)) THEN <<x>> \o list
    ELSE <<Head(list)>> \o insert(strategy, Tail(list), x)

RECURSIVE sorted(_, _)
sorted(strategy, items) ==
    IF items = <<>> THEN <<>>
    ELSE insert(strategy, sorted(strategy, SubSeq(items, 1, Len(items) - 1)),
                items[Len(items)])

Reverse(list) == [i \in 1..Len(list) |-> list[Len(list) + 1 - i]]

\* SortByName.sort: what it returns, and the list it was given afterwards
SortByName(items) == [result |-> sorted("name", items), items |-> items]

\* faulty variant: equal ratings come out in reverse (an ascending sort
\* turned around)
SortByRating_reversed(items) ==
    [result |-> sorted("rating", Reverse(items)), items |-> items]

\* SortByRating.sort: what it returns, and the list it was given afterwards
SortByRating(items) == [result |-> sorted("rating", items), items |-> items]

\* load_restaurants: SortContext(strategy).execute_sort(restaurants)
execute_sort(index, items) ==
    IF index = 0 THEN SortByName(items) ELSE SortByRating(items)

\* the rows load_restaurants puts into restaurant_list
restaurant_rows(index, restaurants) ==
    LET sorted_restaurants == execute_sort(index, restaurants).result IN
    [i \in 1..Len(sorted_restaurants) |-> sorted_restaurants[i].id]

-----------------------------------------------------------------------------
(* Result notifier: Subject and SearchSubject *)

\* the window (the one listener the program attaches), a second plain
\* listener, and a listener whose update() detaches itself
Listeners == {"app", "second", "once"}
SelfDetaching == {"once"}

\* attach: self._observers.append(observer)
attach(obs, observer) == Append(obs, observer)

\* list.remove raises ValueError when the value is not in the list
detach_raises(obs, observer) == \A i \in 1..Len(obs) : obs[i] # observer

\* detach: self._observers.remove(observer) removes the first occurrence
detach(obs, observer) ==
    IF detach_raises(obs, observer) THEN obs
    ELSE LET k == First({i \in 1..Len(obs) : obs[i] = observer}) IN
         SubSeq(obs, 1, k - 1) \o SubSeq(obs, k + 1, Len(obs))

\* notify: "for observer in self._observers" walks the live list by index;
\* the update() of a self-detaching listener removes it meanwhile
RECURSIVE notify(_, _, _, _)
notify(obs, i, message, done) ==
    IF i > Len(obs) THEN [observers |-> obs, calls |-> done]
    ELSE LET observer == obs[i]
             after == IF observer \in SelfDetaching
                      THEN detach(obs, observer) ELSE obs
         IN notify(after, i + 1, message,
                   Append(done, [listener |-> observer,
                                 message |-> message]))

\* update_results: self.results = results; self.notify(results)
update_results(obs, results) ==
    LET n == notify(obs, 1, results, <<>>) IN
    [results |-> results, observers |-> n.observers, calls |-> n.calls]

-----------------------------------------------------------------------------
(* Cart lines and orders *)

\* show_restaurant_by_id: the record with that id, if any
restaurant_by_id(restaurants, restaurant_id) ==
    {i \in 1..Len(restaurants) : restaurants[i].id = restaurant_id}

\* the data a menu list item carries (show_restaurant_by_id)
cart_line(restaurant, item) ==
    [id |-> item.id, name |-> item.name, price |-> item.price,
     restaurant |-> restaurant.name]

PaymentMethods == {"cash on delivery", "bank card"}

\* the order built by confirm_order
new_order(user, items, payment_method) ==
    [user |-> user.login, items |-> items, address |-> user.address,
     payment_method |-> payment_method, status |-> "processing"]

-----------------------------------------------------------------------------
(* Concurrent writers: processes that run register_user or confirm_order   *)
(* on the same files, one file operation at a time                         *)

Writers == {1, 2}

IdleWriter ==
    [pc |-> "idle", op |-> "none", loaded |-> <<>>, data |-> [login |-> ""]]

\* what the writers register and confirm
WriterCandidates ==
    {[login |-> l, password |-> <<"a","7">>,
      repeat_password |-> <<"a","7">>, address |-> "Main St 1",
      role |-> NoRole] : l \in {"alice", "bob"}}

\* the order a writer confirms: one line, of the account it is logged in as
WriterLogin(w) == IF w = 1 THEN "alice" ELSE "bob"

WriterOrder(w) ==
    new_order([login |-> WriterLogin(w), address |-> "Main St 1"],
              <<cart_line(Catalog[1], Catalog[1].menu[1])>>, "bank card")

-----------------------------------------------------------------------------
(* Initial state: no process has run; the store is empty (no file exists),  *)
(* or only the catalog document has been put in place.                      *)

HiddenList == [visible |-> FALSE, rows |-> <<>>]

\* the memory of a process that is not running
NoProcess ==
    /\ running = FALSE
    /\ db_instances = 0
    /\ page = "none"
    /\ current_user = NoUser
    /\ current_restaurant = 0
    /\ cart = <<>>
    /\ msg = ""
    /\ sort_index = 0
    /\ restaurant_list = <<>>
    /\ search_input = <<>>
    /\ search_list = HiddenList
    /\ observers = <<>>
    /\ subject_results = <<>>
    /\ calls = <<>>
    /\ detached = {}

InitStore(catalogs) ==
    /\ \/ files = {} /\ restaurantsFile = <<>>
       \/ /\ files = {"restaurants.json"}
          /\ \E catalog \in catalogs :
                restaurantsFile = save_restaurants(catalog)
    /\ usersFile = <<>>
    /\ ordersFile = <<>>
    /\ registered = {}
    /\ writer = [w \in Writers |-> IdleWriter]
    /\ reported = [registered |-> {}, registers |-> 0, confirms |-> 0,
                   overlapped |-> FALSE]

Init == InitStore({Catalog}) /\ NoProcess

-----------------------------------------------------------------------------
(* Process start and exit *)

\* the main block: Database() creates the missing files, the administrator
\* is seeded when no record has role 'admin', then FoodDeliveryApp.__init__
\* (two more Database() calls, the window attached to search_subject,
\* current_user None, empty cart, hidden result list) and show_login
Start ==
    /\ ~running
    /\ LET document == initial_contents(files, "users.json", usersFile)
           users == json_load_users(document)
       IN usersFile' = IF seed_admin(users) # users
                       THEN save_users(seed_admin(users)) ELSE document
    /\ restaurantsFile' =
          initial_contents(files, "restaurants.json", restaurantsFile)
    /\ ordersFile' = initial_contents(files, "orders.json", ordersFile)
    /\ files' = initialize_files(files)
    /\ db_instances' = Database(Database(Database(db_instances)))
    /\ running' = TRUE
    /\ page' = "login"
    /\ current_user' = NoUser
    /\ current_restaurant' = 0
    /\ cart' = <<>>
    /\ msg' = ""
    /\ sort_index' = 0
    /\ restaurant_list' = <<>>
    /\ search_input' = <<>>
    /\ search_list' = HiddenList
    /\ observers' = attach(<<>>, "app")
    /\ subject_results' = <<>>
    /\ calls' = <<>>
    /\ detached' = {}
    /\ UNCHANGED <<registered, writers>>

\* the window is closed: the process ends, its memory is gone, the files stay
Exit ==
    /\ running
    /\ running' = FALSE
    /\ db_instances' = 0
    /\ page' = "none"
    /\ current_user' = NoUser
    /\ current_restaurant' = 0
    /\ cart' = <<>>
    /\ msg' = ""
    /\ sort_index' = 0
    /\ restaurant_list' = <<>>
    /\ search_input' = <<>>
    /\ search_list' = HiddenList
    /\ observers' = <<>>
    /\ subject_results' = <<>>
    /\ calls' = <<>>
    /\ detached' = {}
    /\ UNCHANGED <<store, registered, writers>>

-----------------------------------------------------------------------------
(* Account handlers *)

\* UserSystemFacade.register_user called with user_data; users is what
\* load_users returns
RegisterUser(users, user_data) ==
    LET r == register_user(users, user_data) IN
    /\ usersFile' = IF r.saved THEN save_users(r.users) ELSE usersFile
    /\ msg' = r.message
    /\ registered' = IF r.ok
                      THEN registered \cup
                             {<<user_data.login, user_data.password,
                                user_data.role>>}
                      ELSE registered

\* a call of the facade's register_user by the presentation layer with any
\* candidate (the facade object lives in the running process)
register_call(C) ==
    /\ running
    /\ LET users == load_users IN
       \E user_data \in C : RegisterUser(users, user_data)
    /\ UNCHANGED <<files, restaurantsFile, ordersFile, running, db_instances,
                   session, view, subject, writers>>

Blank(s) == \A i \in 1..Len(s) : s[i] \in Whitespace

\* handle_register: the blank-field check, then register_user; on success
\* show_login
handle_register(C) ==
    /\ running
    /\ page = "register"
    /\ LET users == load_users IN
       \E user_data \in C, names_filled \in BOOLEAN :
         IF \/ ~names_filled
            \/ user_data.login = ""
            \/ Blank(user_data.password)
            \/ Blank(user_data.repeat_password)
            \/ user_data.address = ""
         THEN /\ msg' = "fill in the fields"
              /\ UNCHANGED <<usersFile, registered, page>>
         ELSE /\ RegisterUser(users, user_data)
              /\ page' = IF register_user(users, user_data).ok
                         THEN "login" ELSE page
    /\ UNCHANGED <<files, restaurantsFile, ordersFile, running, db_instances,
                   current_user, current_restaurant, cart, view, subject,
                   writers>>

\* the login page's "create account" button
show_register ==
    /\ running
    /\ page = "login"
    /\ page' = "register"
    /\ msg' = ""
    /\ UNCHANGED <<store, running, db_instances, current_user,
                   current_restaurant, cart, registered, view, subject,
                   writers>>

\* the register page's "back" button
show_login ==
    /\ running
    /\ page = "register"
    /\ page' = "login"
    /\ msg' = ""
    /\ UNCHANGED <<store, running, db_instances, current_user,
                   current_restaurant, cart, registered, view, subject,
                   writers>>

\* show_main: only with a current user
show_main_page(user, p) == IF user # NoUser THEN "main" ELSE p

\* show_main: load_restaurants(), search_input.clear() (a text that changes
\* runs handle_search with the empty text, which clears the result list),
\* the result list hidden
show_main_view(user) ==
    IF user # NoUser
    THEN /\ restaurant_list' = restaurant_rows(sort_index, load_restaurants)
         /\ search_input' = <<>>
         /\ search_list' =
               [visible |-> FALSE,
                rows |-> IF search_input # <<>> THEN <<>>
                         ELSE search_list.rows]
         /\ UNCHANGED sort_index
    ELSE UNCHANGED view

\* faulty variant: an administrator is taken to the main page too
page_after_login_main(user, p) == show_main_page(user, p)

\* handle_login: the admin page for an AdminUser, show_main otherwise
page_after_login(user, p) ==
    IF user.role = "admin" THEN "admin" ELSE show_main_page(user, p)

\* handle_login: login_user, then the admin page or show_main
handle_login(L, P) ==
    /\ running
    /\ page = "login"
    /\ LET users == load_users IN
       \E login \in L, password \in P :
         LET user == login_user(users, login, password) IN
         IF user # NoUser
         THEN /\ current_user' = user
              /\ page' = page_after_login(user, page)
              /\ IF page_after_login(user, page) = "main"
                 THEN show_main_view(user) ELSE UNCHANGED view
              /\ msg' = ""
         ELSE /\ msg' = "wrong login or password"
              /\ UNCHANGED <<current_user, page, view>>
    /\ UNCHANGED <<store, running, db_instances, current_restaurant, cart,
                   registered, subject, writers>>

\* faulty variant: logout keeps the cart
cart_kept(lines) == lines

\* logout: self.cart = []
cart_after_logout(lines) == <<>>

\* logout (main page and admin page)
logout ==
    /\ running
    /\ page \in {"main", "admin"}
    /\ current_user' = NoUser
    /\ cart' = cart_after_logout(cart)
    /\ page' = "login"
    /\ msg' = ""
    /\ UNCHANGED <<store, running, db_instances, current_restaurant,
                   registered, view, subject, writers>>

-----------------------------------------------------------------------------
(* Search and listing handlers *)

\* FoodDeliveryApp.update: the window's reaction to a publish
app_update(list, published) ==
    IF \E i \in 1..Len(published) : published[i].listener = "app"
    THEN [visible |-> TRUE, rows |-> result_rows(published[1].message)]
    ELSE list

\* handle_search: the text of search_input changed to `text`, or the search
\* button was pressed with it
handle_search(Q) ==
    /\ running
    /\ page = "main"
    /\ \E text \in Q :
         /\ search_input' = text
         /\ LET query == lower(text) IN
            IF query_is_empty(query)
            THEN /\ search_list' = HiddenList
                 /\ calls' = <<>>
                 /\ UNCHANGED <<observers, subject_results>>
            ELSE LET u == update_results(observers,
                             search_results(query, load_restaurants)) IN
                 /\ subject_results' = u.results
                 /\ observers' = u.observers
                 /\ calls' = u.calls
                 /\ search_list' = app_update(search_list, u.calls)
    /\ msg' = ""
    /\ UNCHANGED <<store, running, db_instances, session, registered,
                   sort_index, restaurant_list, detached, writers>>

\* load_restaurants run by sort_combo.currentIndexChanged
sort_changed ==
    /\ running
    /\ page = "main"
    /\ \E index \in {0, 1} \ {sort_index} :
         /\ sort_index' = index
         /\ restaurant_list' = restaurant_rows(index, load_restaurants)
    /\ msg' = ""
    /\ UNCHANGED <<store, running, db_instances, session, registered,
                   search_input, search_list, subject, writers>>

-----------------------------------------------------------------------------
(* Calls of the notifier by other code of the running process *)

attach_call ==
    /\ running
    /\ Len(observers) < MaxObservers
    /\ \E observer \in Listeners :
         /\ observers' = attach(observers, observer)
         /\ detached' = detached \ {observer}
    /\ msg' = ""
    /\ UNCHANGED <<store, running, db_instances, session, registered, view,
                   subject_results, calls, writers>>

\* a detach of a listener that is not attached raises and changes nothing
detach_call ==
    /\ running
    /\ \E observer \in Listeners :
         /\ observers' = detach(observers, observer)
         /\ detached' = IF detach_raises(observers, observer) THEN detached
                        ELSE detached \cup {observer}
         /\ msg' = IF detach_raises(observers, observer) THEN "ValueError"
                   ELSE ""
    /\ UNCHANGED <<store, running, db_instances, session, registered, view,
                   subject_results, calls, writers>>

\* the result sequences published
Published == {search_results(q, Catalog) : q \in {<<"p">>, <<"c">>, <<"x">>}}

update_results_call ==
    /\ running
    /\ \E results \in Published :
         LET u == update_results(observers, results) IN
         /\ subject_results' = u.results
         /\ observers' = u.observers
         /\ calls' = u.calls
         /\ search_list' = app_update(search_list, u.calls)
    /\ msg' = ""
    /\ UNCHANGED <<store, running, db_instances, session, registered,
                   sort_index, restaurant_list, search_input, detached,
                   writers>>

-----------------------------------------------------------------------------
(* Catalog navigation, cart and order handlers *)

\* the ids carried by the rows that can be clicked on the main page
clickable_ids ==
    {restaurant_list[i] : i \in 1..Len(restaurant_list)} \cup
    (IF search_list.visible
     THEN {search_list.rows[i].restaurant_id :
              i \in {k \in 1..Len(search_list.rows) :
                        search_list.rows[k].type # "text"}}
     ELSE {})

\* show_restaurant / handle_search_result_click: show_restaurant_by_id for
\* an item of the main page's lists
show_restaurant ==
    /\ running
    /\ page = "main"
    /\ \E restaurant_id \in clickable_ids :
         LET found == restaurant_by_id(load_restaurants, restaurant_id) IN
         /\ found # {}
         /\ current_restaurant' = load_restaurants[First(found)].id
         /\ page' = "restaurant"
    /\ msg' = ""
    /\ UNCHANGED <<store, running, db_instances, current_user, cart,
                   registered, view, subject, writers>>

\* the "back" buttons of the restaurant and cart pages
show_main ==
    /\ running
    /\ page \in {"restaurant", "cart"}
    /\ page' = show_main_page(current_user, page)
    /\ show_main_view(current_user)
    /\ msg' = ""
    /\ UNCHANGED <<store, running, db_instances, current_user,
                   current_restaurant, cart, registered, subject, writers>>

\* the cart buttons of the main and restaurant pages, "back" of the
\* confirmation page
show_cart ==
    /\ running
    /\ page \in {"main", "restaurant", "order_confirmation"}
    /\ page' = "cart"
    /\ msg' = ""
    /\ UNCHANGED <<store, running, db_instances, current_user,
                   current_restaurant, cart, registered, view, subject,
                   writers>>

\* the restaurant shown on the restaurant page
shown_restaurant ==
    load_restaurants[First(restaurant_by_id(load_restaurants,
                                            current_restaurant))]

\* faulty variant: a dish already in the cart is not added again
cart_append_unique(lines, data) ==
    IF \E i \in 1..Len(lines) : lines[i] = data THEN lines
    ELSE Append(lines, data)

\* self.cart.append(data)
cart_append(lines, data) == Append(lines, data)

\* add_to_cart: a double click on a dish of the restaurant page
add_to_cart ==
    /\ running
    /\ page = "restaurant"
    /\ Len(cart) < MaxLines
    /\ \E k \in 1..Len(shown_restaurant.menu) :
         cart' = cart_append(cart,
                     cart_line(shown_restaurant, shown_restaurant.menu[k]))
    /\ msg' = "added to cart"
    /\ UNCHANGED <<store, running, db_instances, page, current_user,
                   current_restaurant, registered, view, subject, writers>>

\* faulty variant: the cart is not checked
cart_is_empty_never(lines) == FALSE

\* show_order_confirmation's guard: "if not self.cart"
cart_is_empty(lines) == Len(lines) = 0

\* show_order_confirmation: the cart page's checkout button
show_order_confirmation ==
    /\ running
    /\ page = "cart"
    /\ IF cart_is_empty(cart)
       THEN /\ msg' = "cart is empty"
            /\ page' = page
       ELSE /\ msg' = ""
            /\ page' = "order_confirmation"
    /\ UNCHANGED <<store, running, db_instances, current_user,
                   current_restaurant, cart, registered, view, subject,
                   writers>>

\* the number of lines the persisted orders hold together
RECURSIVE stored_lines(_)
stored_lines(orders) ==
    IF orders = <<>> THEN 0
    ELSE Len(Head(orders).items) + stored_lines(Tail(orders))

\* faulty variant: only the new order is saved
orders_overwrite(orders, order) == <<order>>

\* orders.append(order)
orders_append(orders, order) == Append(orders, order)

\* confirm_order: self.cart = []
cart_after_confirm(lines) == <<>>

\* confirm_order: the confirmation page's confirm button
confirm_order ==
    /\ running
    /\ page = "order_confirmation"
    /\ stored_lines(load_orders) + Len(cart) <= MaxLines
    /\ \E payment_method \in PaymentMethods :
         ordersFile' = save_orders(orders_append(load_orders,
                          new_order(current_user, cart, payment_method)))
    /\ cart' = cart_after_confirm(cart)
    /\ msg' = "order confirmed"
    /\ page' = show_main_page(current_user, page)
    /\ show_main_view(current_user)
    /\ UNCHANGED <<files, usersFile, restaurantsFile, running, db_instances,
                   current_user, current_restaurant, registered, subject,
                   writers>>

-----------------------------------------------------------------------------
(* Steps of the concurrent writers *)

\* register_user line 93 / confirm_order line 905: the writer reads the file
writer_load(w) ==
    /\ files = FileNames
    /\ writer[w].pc = "idle"
    /\ \/ \E user_data \in WriterCandidates :
            writer' = [writer EXCEPT ![w] =
                          [pc |-> "loaded", op |-> "register",
                           loaded |-> load_users, data |-> user_data]]
       \/ /\ stored_lines(load_orders) + Len(WriterOrder(w).items)
               <= MaxLines
          /\ writer' = [writer EXCEPT ![w] =
                           [pc |-> "loaded", op |-> "confirm",
                            loaded |-> load_orders,
                            data |-> WriterOrder(w)]]
    /\ reported' = [reported EXCEPT !.overlapped =
                       @ \/ \E v \in Writers \ {w} : writer[v].pc = "loaded"]
    /\ UNCHANGED <<store, running, db_instances, session, msg, registered,
                   view, subject>>

\* register_user lines 94-104 / confirm_order lines 906-907 on the copy the
\* writer loaded: the checks, the append, the save and the report
writer_save(w) ==
    /\ writer[w].pc = "loaded"
    /\ IF writer[w].op = "register"
       THEN LET r == register_user(writer[w].loaded, writer[w].data) IN
            /\ usersFile' = IF r.saved THEN save_users(r.users)
                            ELSE usersFile
            /\ reported' =
                  IF r.ok
                  THEN [reported EXCEPT
                           !.registered = @ \cup {writer[w].data.login},
                           !.registers = @ + 1]
                  ELSE reported
            /\ UNCHANGED ordersFile
       ELSE /\ ordersFile' = save_orders(orders_append(writer[w].loaded,
                                                       writer[w].data))
            /\ reported' = [reported EXCEPT !.confirms = @ + 1]
            /\ UNCHANGED usersFile
    /\ writer' = [writer EXCEPT ![w] = IdleWriter]
    /\ UNCHANGED <<files, restaurantsFile, running, db_instances, session,
                   msg, registered, view, subject>>

-----------------------------------------------------------------------------
(* Specifications *)

\* the account, cart and order workflow of the program, driven through the
\* forms and buttons
HandleRegisterForm == handle_register(FormCandidates)
HandleLoginForm ==
    handle_login({"alice", "Alice", AdminLogin},
                 FormPasswords \cup {AdminPassword})

Next ==
    \/ Start
    \/ Exit
    \/ show_register
    \/ show_login
    \/ HandleRegisterForm
    \/ HandleLoginForm
    \/ logout
    \/ show_restaurant
    \/ show_main
    \/ show_cart
    \/ add_to_cart
    \/ show_order_confirmation
    \/ confirm_order

Spec == Init /\ [][Next]_vars

\* the account directory with every candidate of Candidates
RegisterAny == register_call(Candidates)
HandleLoginAny == handle_login(Logins, Passwords \cup {AdminPassword})

NextAccounts ==
    \/ Start
    \/ Exit
    \/ show_register
    \/ show_login
    \/ RegisterAny
    \/ HandleRegisterForm
    \/ HandleLoginAny
    \/ logout

SpecAccounts == Init /\ [][NextAccounts]_vars

\* search and listing on the main page, over every catalog of SearchCatalogs,
\* with one account to log in with
OneCandidate ==
    {[login |-> "alice", password |-> <<"a","7">>,
      repeat_password |-> <<"a","7">>, address |-> "Main St 1",
      role |-> NoRole]}

InitCatalog == InitStore(SearchCatalogs) /\ NoProcess

HandleRegisterOne == handle_register(OneCandidate)
HandleLoginOne == handle_login({"alice"}, {<<"a","7">>})
HandleSearch == handle_search(SearchQueries)

NextCatalog ==
    \/ Start
    \/ Exit
    \/ show_register
    \/ show_login
    \/ HandleRegisterOne
    \/ HandleLoginOne
    \/ logout
    \/ HandleSearch
    \/ sort_changed
    \/ show_restaurant
    \/ show_main

SpecCatalog == InitCatalog /\ [][NextCatalog]_vars

\* the notifier of the running process under any attach, detach and publish
\* calls
NextNotifier ==
    \/ Start
    \/ Exit
    \/ attach_call
    \/ detach_call
    \/ update_results_call

SpecNotifier == Init /\ [][NextNotifier]_vars

\* two writers whose file operations interleave
WriterLoad == \E w \in Writers : writer_load(w)
WriterSave == \E w \in Writers : writer_save(w)

NextWriters ==
    \/ Start
    \/ Exit
    \/ WriterLoad
    \/ WriterSave

SpecWriters == Init /\ [][NextWriters]_vars

-----------------------------------------------------------------------------
(* Properties of the account directory *)

Stored(users, login) == \E i \in 1..Len(users) : users[i].login = login

AdminCount(users) ==
    Cardinality({i \in 1..Len(users) : users[i].role = "admin"})

RegisterMessages ==
    {"registered", "login exists", "passwords differ", "password characters"}

\* C1: from an empty store, after any process starts (with the seeding of
\* the administrator) and register calls, no two records of users.json have
\* the same login.
C1_UniqueLogins ==
    LET users == load_users IN
    \A i, j \in 1..Len(users) : i # j => users[i].login # users[j].login

\* a duplicate login was just refused with the administrator and two
\* registered accounts stored
C1_Witness ==
    /\ Len(load_users) = 3
    /\ msg = "login exists"

\* C2: register rejects every candidate whose password is empty or has a
\* character outside [A-Za-z0-9] (a blank or a line break at the end
\* included), and accepts every non-empty password of class characters when
\* the login is new and the repeat field equals the password.
C2_PasswordClass ==
    LET users == load_users IN
    /\ \A t \in registered : t[2] # <<>> /\ AllInClass(t[2])
    /\ \A c \in Candidates :
          ( /\ c.password # <<>>
            /\ AllInClass(c.password)
            /\ ~Stored(users, c.login)
            /\ c.repeat_password = c.password )
          => register_user(users, c).ok

\* C3: register checks the login, then the repeat field, then the character
\* class, and reports the first check that fails: a stored login (exact,
\* case-sensitive) always gives the duplicate-login message, a login that is
\* not stored never does.
C3_CheckOrder ==
    LET users == load_users IN
    \A c \in Candidates :
        LET r == register_user(users, c) IN
        /\ Stored(users, c.login) =>
              ~r.ok /\ r.message = "login exists"
        /\ ~Stored(users, c.login) => r.message # "login exists"
        /\ (~Stored(users, c.login)
              /\ c.password # c.repeat_password) =>
              ~r.ok /\ r.message = "passwords differ"
        /\ (~Stored(users, c.login)
              /\ c.password = c.repeat_password /\ ~r.ok) =>
              r.message = "password characters"
        /\ ~r.ok => ~r.saved /\ r.users = users

\* a register call was refused as a duplicate while a candidate exists whose
\* login is stored, whose repeat field differs and whose password has a
\* character outside the class
C3_Witness ==
    /\ msg = "login exists"
    /\ Len(load_users) >= 2
    /\ \E c \in Candidates :
          /\ Stored(load_users, c.login)
          /\ c.password # c.repeat_password
          /\ ~AllInClass(c.password)

\* C4: a successful register appends exactly one record at the end of
\* users.json; the record has role 'user' whatever role the candidate
\* carried and no repeat_password field; the records stored before keep
\* their content and order; no register call changes the number of
\* administrator records.
C4_RegisterAppends ==
    [][ LET before_call == load_users
            after_call == load_users'
        IN
        /\ msg' = "registered" =>
            /\ Len(after_call) = Len(before_call) + 1
            /\ SubSeq(after_call, 1, Len(before_call)) = before_call
            /\ LET rec == after_call[Len(after_call)] IN
               /\ rec.role = "user"
               /\ DOMAIN rec = {"login", "password", "address", "role"}
               /\ \E t \in registered' \ registered :
                     t[1] = rec.login /\ t[2] = rec.password
        /\ (msg' \in RegisterMessages /\ usersFile' # usersFile) =>
            AdminCount(after_call) = AdminCount(before_call)
      ]_vars

\* a candidate that carried role 'admin' has been registered, and the last
\* call succeeded
C4_Witness ==
    /\ msg = "registered"
    /\ Len(load_users) = 3
    /\ \E t \in registered : t[3] = "admin"
    /\ AdminCount(load_users) = 1

\* C5: login_user(login, password) returns an account iff a stored record
\* has exactly that login and that password; the account is an AdminUser
\* exactly when the matched record's role is 'admin', a RegularUser
\* otherwise, and its role is the stored role; otherwise it returns None.
\* The account of the session is such a result.
C5_Authenticate ==
    LET users == load_users IN
    /\ \A login \in Logins, password \in Passwords \cup {AdminPassword} :
          LET a == login_user(users, login, password)
              S == {i \in 1..Len(users) :
                       /\ users[i].login = login
                       /\ users[i].password = password}
          IN /\ (a # NoUser) <=> (S # {})
             /\ \A i \in S :
                   /\ a.login = login
                   /\ a.password = password
                   /\ a.role = users[i].role
                   /\ a.address = users[i].address
                   /\ (a.variant = "AdminUser") <=>
                         (users[i].role = "admin")
                   /\ (a.variant = "RegularUser") <=>
                         (users[i].role # "admin")
    /\ current_user # NoUser =>
          \E i \in 1..Len(users) :
             /\ users[i].login = current_user.login
             /\ users[i].password = current_user.password
             /\ users[i].role = current_user.role
             /\ (current_user.variant = "AdminUser") <=>
                   (users[i].role = "admin")

\* a registered account is logged in as a RegularUser while the
\* administrator and another account are stored
C5_Witness ==
    /\ current_user.variant = "RegularUser"
    /\ Len(load_users) = 3
    /\ page = "main"

-----------------------------------------------------------------------------
(* Properties of the session, the cart and the orders *)

\* C6: once register(login, password) has succeeded, login_user(login,
\* password) returns a RegularUser of role 'user' for that login after any
\* later register, login, navigation, cart, confirm, logout, exit and start:
\* no step changes or removes a stored account.
C6_RegisteredStays ==
    /\ [](LET users == load_users IN
          \A t \in registered :
            LET a == login_user(users, t[1], t[2]) IN
            /\ a.variant = "RegularUser"
            /\ a.role = "user"
            /\ a.login = t[1])
    /\ [][ usersFile' # usersFile =>
              LET before_step == load_users
                  after_step == load_users'
              IN /\ Len(after_step) >= Len(before_step)
                 /\ SubSeq(after_step, 1, Len(before_step)) = before_step
         ]_vars

\* two accounts were registered, an order was confirmed, and the process
\* has exited
C6_Witness ==
    /\ ~running
    /\ Cardinality(registered) = 2
    /\ load_orders # <<>>

\* C7: confirming with an empty cart fails with the cart-is-empty message:
\* no step taken with an empty cart changes orders.json or opens the
\* confirmation page, and the checkout that stays on the cart page reports
\* that the cart is empty.
C7_EmptyCartRefused ==
    [][ /\ cart = <<>> =>
            /\ ordersFile' = ordersFile
            /\ page' # "order_confirmation"
        /\ (page = "cart" /\ page' = "cart") =>
            /\ cart = <<>>
            /\ msg' = "cart is empty"
            /\ ordersFile' = ordersFile
      ]_vars

\* the checkout of an empty cart was just refused, in a session of a logged
\* in account
C7_Witness ==
    /\ msg = "cart is empty"
    /\ page = "cart"
    /\ cart = <<>>
    /\ current_user.variant = "RegularUser"

\* C8: every add_to_cart appends its line at the end of the cart (the same
\* dish again is a further line), a confirm turns the whole cart, in order,
\* into the one order it appends, and empties the cart, so that a further
\* confirm without a new line is refused and adds no order.
C8_CartRoundTrip ==
    [][ /\ msg' = "added to cart" =>
            /\ Len(cart') = Len(cart) + 1
            /\ SubSeq(cart', 1, Len(cart)) = cart
            /\ ordersFile' = ordersFile
        /\ msg' = "order confirmed" =>
            /\ Len(cart) >= 1
            /\ Len(load_orders') = Len(load_orders) + 1
            /\ load_orders'[Len(load_orders')].items = cart
            /\ cart' = <<>>
        /\ (msg = "order confirmed" /\ msg' # "added to cart") =>
            /\ cart' = <<>>
            /\ ordersFile' = ordersFile
      ]_vars

\* one order holds the same dish twice, and the checkout that followed was
\* refused
C8_Witness ==
    /\ Len(load_orders) = 1
    /\ Len(load_orders[1].items) = 2
    /\ load_orders[1].items[1] = load_orders[1].items[2]
    /\ msg = "cart is empty"
    /\ current_user.login = load_orders[1].user

\* C9: orders.json changes only by confirm_order, which appends one order
\* at the end: user and address of the current account, the chosen payment
\* label, status "processing" and the lines of the cart; the orders stored
\* before stay as they are in every step.
C9_OrdersAppendOnly ==
    [][ IF ordersFile' = ordersFile
        THEN msg' # "order confirmed"
        ELSE LET orders == load_orders
                 orders_after == load_orders'
             IN
             /\ Len(orders_after) = Len(orders) + 1
             /\ SubSeq(orders_after, 1, Len(orders)) = orders
             /\ msg' = "order confirmed"
             /\ current_user # NoUser
             /\ \E payment_method \in PaymentMethods :
                   orders_after =
                      Append(orders,
                             [user |-> current_user.login,
                              items |-> cart,
                              address |-> current_user.address,
                              payment_method |-> payment_method,
                              status |-> "processing"])
             /\ LET users == load_users IN
                \E i \in 1..Len(users) :
                   /\ users[i].login = current_user.login
                   /\ users[i].address = current_user.address
      ]_vars

\* two orders of different accounts and payment labels are stored and a
\* line was added to the cart after the last of them
C9_Witness ==
    /\ Len(load_orders) = 2
    /\ load_orders[1].user # load_orders[2].user
    /\ load_orders[1].payment_method # load_orders[2].payment_method
    /\ cart # <<>>

\* C10: whenever no account is logged in (before a login, after a failed
\* login, after logout) the cart is empty, and every step that changes the
\* current account (a login, a logout, an exit) leaves an empty cart: the
\* account that logs in next starts without lines.
C10_CartOfSession ==
    /\ [](current_user = NoUser => cart = <<>>)
    /\ [][current_user' # current_user => cart' = <<>>]_vars

\* a login has just failed after an earlier session confirmed an order
C10_Witness ==
    /\ running
    /\ current_user = NoUser
    /\ msg = "wrong login or password"
    /\ load_orders # <<>>
    /\ cart = <<>>

-----------------------------------------------------------------------------
(* Properties of search and listing *)

OnlyBlanks(text) == \A i \in 1..Len(text) : text[i] = " "

\* C11: a search with an empty query and a search with a query made only of
\* blanks both yield an empty result sequence for every catalog, also one in
\* which a restaurant or dish name contains that run of blanks: while the
\* search field holds such a text, the result list shows no restaurant and
\* no dish, and a publish made for such a text carried no result.
C11_BlankQueryEmpty ==
    (running /\ page = "main" /\ OnlyBlanks(search_input)) =>
       /\ \A i \in 1..Len(search_list.rows) :
             search_list.rows[i].type = "text"
       /\ search_input # <<>> =>
             \A i \in 1..Len(calls) : calls[i].message = <<>>

\* the places of a catalog: <<i, 0>> is restaurant i, <<i, k>> its k-th dish
Places(restaurants) ==
    UNION {{<<i, k>> : k \in 0..Len(restaurants[i].menu)} :
              i \in 1..Len(restaurants)}

name_at(restaurants, place) ==
    IF place[2] = 0 THEN restaurants[place[1]].name
    ELSE restaurants[place[1]].menu[place[2]].name

\* the places whose name contains the query, letter case ignored
MatchingPlaces(text, restaurants) ==
    {place \in Places(restaurants) :
        contains(lower(text), lower(name_at(restaurants, place)))}

\* catalog order: restaurant by restaurant, the restaurant before its dishes,
\* the dishes in menu order
PlaceBefore(a, b) == a[1] < b[1] \/ (a[1] = b[1] /\ a[2] < b[2])

\* the n-th matching place in catalog order
NthPlace(matching, n) ==
    CHOOSE place \in matching :
        Cardinality({other \in matching : PlaceBefore(other, place)}) = n - 1

\* the result a place stands for
ExpectedResult(restaurants, place) ==
    LET restaurant == restaurants[place[1]] IN
    IF place[2] = 0
    THEN [type |-> "restaurant", id |-> restaurant.id,
          name |-> restaurant.name, description |-> restaurant.description,
          rating |-> IF "rating" \in DOMAIN restaurant
                     THEN restaurant.rating ELSE DefaultRating]
    ELSE LET item == restaurant.menu[place[2]] IN
         [type |-> "dish", restaurant_id |-> restaurant.id,
          restaurant_name |-> restaurant.name, name |-> item.name,
          description |-> item.description, price |-> item.price]

IsExpected(results, text, restaurants) ==
    LET matching == MatchingPlaces(text, restaurants) IN
    /\ Len(results) = Cardinality(matching)
    /\ \A n \in 1..Len(results) :
          results[n] = ExpectedResult(restaurants, NthPlace(matching, n))

\* C12: for a query that is not blank, search yields one restaurant result
\* for each restaurant whose name contains the query and one dish result for
\* each dish whose name contains it (letter case ignored), whether or not the
\* dish's restaurant matched, in catalog order: restaurant by restaurant, the
\* restaurant's own result just before its dishes' results, those in menu
\* order; nothing else.  What is published and listed for the text in the
\* search field is that sequence.
C12_SearchResults ==
    running =>
       LET restaurants == load_restaurants IN
       /\ \A text \in SearchQueries :
             ~OnlyBlanks(text) =>
                IsExpected(search_results(lower(text), restaurants), text,
                           restaurants)
       /\ ~OnlyBlanks(search_input) =>
             /\ IsExpected(subject_results, search_input, restaurants)
             /\ search_list =
                   [visible |-> TRUE, rows |-> result_rows(subject_results)]

\* the query "AB" found the restaurant "Ab" and, from a restaurant whose name
\* does not match, the dish "ab"
C12_Witness ==
    /\ search_input = <<"A", "B">>
    /\ Len(subject_results) = 2
    /\ subject_results[1].type = "restaurant"
    /\ subject_results[1].name = <<"A", "b">>
    /\ subject_results[2].type = "dish"
    /\ subject_results[2].name = <<"a", "b">>
    /\ subject_results[2].restaurant_name = <<"a", " ", " ", " ", "b">>

\* the rating a restaurant is ordered by
OrderedAs(restaurant) ==
    IF "rating" \in DOMAIN restaurant THEN restaurant.rating ELSE 40

\* result is items rearranged: descending by OrderedAs, equal ones in their
\* original relative order
StableDescending(result, items) ==
    /\ Len(result) = Len(items)
    /\ \E pi \in [1..Len(items) -> 1..Len(items)] :
          /\ \A i \in 1..Len(items) : result[i] = items[pi[i]]
          /\ \A i, j \in 1..Len(items) :
                i < j =>
                   \/ OrderedAs(items[pi[i]]) > OrderedAs(items[pi[j]])
                   \/ /\ OrderedAs(items[pi[i]]) = OrderedAs(items[pi[j]])
                      /\ pi[i] < pi[j]

\* C13: listing by rating returns a permutation of the catalog's restaurants
\* in descending rating order, restaurants of equal rating in their original
\* relative order and a restaurant without a rating ordered as if rated 4.0;
\* the sort returns a new sequence: the loaded list and every record in it
\* (a missing rating included) are as they were, and no step changes the
\* catalog document.  The rows of the restaurant list sorted by rating are
\* the ids in that order.
C13_ListByRating ==
    /\ [](running =>
            LET restaurants == load_restaurants
                done == SortByRating(restaurants)
            IN /\ StableDescending(done.result, restaurants)
               /\ done.items = restaurants
               /\ execute_sort(1, restaurants) = done
               /\ (page = "main" /\ sort_index = 1) =>
                     restaurant_list =
                        [i \in 1..Len(done.result) |-> done.result[i].id])
    /\ [][restaurantsFile' = restaurantsFile]_vars

\* the catalog holds a restaurant without a rating, one rated 4.0 and one
\* rated 4.5, in that order, and the list sorted by rating shows the one
\* rated 4.5 first and the other two in catalog order
C13_Witness ==
    /\ running
    /\ page = "main"
    /\ sort_index = 1
    /\ Len(load_restaurants) = 3
    /\ "rating" \notin DOMAIN load_restaurants[1]
    /\ load_restaurants[2].rating = 40
    /\ load_restaurants[3].rating = 45
    /\ restaurant_list =
          <<load_restaurants[3].id, load_restaurants[1].id,
            load_restaurants[2].id>>

-----------------------------------------------------------------------------
(* Properties of the result notifier *)

\* the listeners of a list, each once, in the order of their first attach
RECURSIVE EachOnce(_)
EachOnce(list) ==
    IF list = <<>> THEN <<>>
    ELSE LET rest == EachOnce(SubSeq(list, 1, Len(list) - 1))
             last == list[Len(list)]
         IN IF \E i \in 1..Len(rest) : rest[i] = last THEN rest
            ELSE Append(rest, last)

InvokedListeners(published) ==
    [i \in 1..Len(published) |-> published[i].listener]

\* C14: a publish stores its results as the notifier's latest result set and
\* invokes every listener attached at that moment exactly once, with that
\* same sequence, in the order the listeners were attached; after any attach
\* and detach calls, a listener attached more than once and a listener that
\* detaches during the publish included.
C14_PublishInvokesAll ==
    [][ update_results_call =>
          /\ \A i \in 1..Len(calls') : calls'[i].message = subject_results'
          /\ InvokedListeners(calls') = EachOnce(observers)
      ]_vars

\* a list without every occurrence of one listener
RECURSIVE Without(_, _)
Without(list, observer) ==
    IF list = <<>> THEN <<>>
    ELSE (IF Head(list) = observer THEN <<>> ELSE <<Head(list)>>)
         \o Without(Tail(list), observer)

\* C15: after a detach of a listener has returned, no later publish invokes
\* that listener until it is attached again, and the other attached listeners
\* stay attached in their attach order; a detach of a listener that is not
\* attached leaves the attached listeners unchanged.
C15_DetachedNotInvoked ==
    /\ [][ update_results_call =>
              \A i \in 1..Len(calls') : calls'[i].listener \notin detached
         ]_vars
    /\ [][ detach_call =>
              /\ \E observer \in Listeners :
                    Without(observers', observer) =
                       Without(observers, observer)
              /\ msg' = "ValueError" => observers' = observers
         ]_vars

-----------------------------------------------------------------------------
(* Properties of the record store *)

\* C16: the store is built once per process and reused; at its first use
\* every missing collection becomes the empty sequence and a collection that
\* exists is left as it is (the main block then appends the administrator
\* to the accounts when none is stored), so that what a process run saved is
\* what load returns after a restart; a save replaces the whole collection
\* and the next load returns exactly the saved sequence.
C16_StoreLifecycle ==
    /\ [](running => db_instances = 1 /\ files = FileNames)
    /\ [](LET users == load_users IN
          /\ json_load_users(save_users(users)) = users
          /\ \A c \in Candidates :
                LET saved == Append(users, new_record(c)) IN
                json_load_users(save_users(saved)) = saved)
    /\ [](LET orders == load_orders
              restaurants == load_restaurants
          IN
          /\ json_load_restaurants(save_restaurants(restaurants))
                = restaurants
          /\ \A w \in Writers :
                LET saved == Append(orders, WriterOrder(w)) IN
                json_load_orders(save_orders(saved)) = saved)
    /\ [][ (~running /\ running') =>
              /\ restaurantsFile' = restaurantsFile
              /\ ordersFile' = ordersFile
              /\ "restaurants.json" \notin files => load_restaurants' = <<>>
              /\ "orders.json" \notin files => load_orders' = <<>>
              /\ LET found == IF "users.json" \in files THEN load_users
                              ELSE <<>>
                 IN load_users' \in {found, Append(found, admin_user)}
         ]_vars
    /\ [][ (running /\ ~running') => UNCHANGED store ]_vars

\* a process run has saved an account whose password ends in a line break
\* (written to the document as an escape) and has exited
C16_Witness ==
    /\ ~running
    /\ files = FileNames
    /\ Len(load_users) = 2
    /\ load_users[2].password = <<"a", "\n">>
    /\ usersFile[2].password = <<"a", "\\", "n">>

-----------------------------------------------------------------------------
(* Properties of concurrent writers *)

\* C17: the load-modify-store sequence of a write is not atomic across
\* writers, and updates can be lost when the loads and saves of two writers
\* interleave (the witness below); while no two writers ever held a loaded
\* copy at the same time, every register and confirm the writers reported as
\* done is in the store: the accounts are the administrator and one record
\* for each register, each registered login is stored, and the orders are
\* one for each confirm.
C17_SingleWriterKeepsAll ==
    (files = FileNames /\ ~reported.overlapped) =>
       LET users == load_users IN
       /\ Len(users) = 1 + reported.registers
       /\ \A login \in reported.registered : Stored(users, login)
       /\ Len(load_orders) = reported.confirms

\* two registers were both reported as done and only one of the two accounts
\* is stored, and two confirms were both reported as done and only one order
\* is stored
C17_Witness ==
    /\ reported.overlapped
    /\ \A w \in Writers : writer[w].pc = "idle"
    /\ reported.registers = 2
    /\ Cardinality(reported.registered) = 2
    /\ Len(load_users) = 2
    /\ reported.confirms = 2
    /\ Len(load_orders) = 1

-----------------------------------------------------------------------------
(* Properties of the session over the interface events *)

\* C18: over every sequence of interface events the confirmation page (the
\* only page whose button runs confirm_order) is shown only while an account
\* is logged in, that account is not an administrator and the cart holds at
\* least one line; every persisted order has at least one line and its user
\* is the login of a stored account of role "user"; and an order is written
\* only by a step taken from that page.
C18_ConfirmNeedsSession ==
    /\ [](page = "order_confirmation" =>
             /\ running
             /\ current_user # NoUser
             /\ current_user.role # "admin"
             /\ current_user.variant = "RegularUser"
             /\ cart # <<>>)
    /\ [](ordersFile # <<>> =>
             LET orders == load_orders
                 users == load_users
             IN \A k \in 1..Len(orders) :
                   /\ Len(orders[k].items) >= 1
                   /\ \E i \in 1..Len(users) :
                         /\ users[i].login = orders[k].user
                         /\ users[i].role = "user")
    /\ [][ordersFile' # ordersFile => page = "order_confirmation"]_vars

\* the confirmation page is shown to an account while the order of another
\* account, confirmed in an earlier session, is stored
C18_Witness ==
    /\ running
    /\ page = "order_confirmation"
    /\ cart # <<>>
    /\ Len(load_orders) = 1
    /\ load_orders[1].user # current_user.login

-----------------------------------------------------------------------------
(* Properties of a refused register *)

RegisterFailures ==
    {"login exists", "passwords differ", "password characters"}

\* C19: a register that fails (the login exists, the repeat field differs,
\* or the password has a character outside the class) writes nothing: the
\* step leaves users.json as it was; and on every stored list the program
\* reaches, for every candidate, a refused call saves nothing, leaves the
\* list as loaded and leaves the candidate dict as it was passed in, with
\* its repeat_password field and its role.
C19_FailedRegisterWritesNothing ==
    /\ [][msg' \in RegisterFailures =>
             /\ usersFile' = usersFile
             /\ registered' = registered]_vars
    /\ [](running =>
            LET users == load_users IN
            \A user_data \in Candidates :
               LET r == register_user(users, user_data) IN
               ~r.ok =>
                  /\ r.message \in RegisterFailures
                  /\ ~r.saved
                  /\ r.users = users
                  /\ r.user_data = user_data
                  /\ "repeat_password" \in DOMAIN r.user_data
                  /\ r.user_data.repeat_password = user_data.repeat_password
                  /\ r.user_data.role = user_data.role)

\* a register has just been refused for its login while two registered
\* accounts are stored, one of them registered from a candidate that carried
\* role 'admin'
C19_Witness ==
    /\ running
    /\ msg = "login exists"
    /\ Len(load_users) = 3
    /\ \E t \in registered : t[3] = "admin"

-----------------------------------------------------------------------------
(* Properties of what a search publishes *)

\* C20: a search with the empty text does not publish: the subject keeps
\* the result sequence of the last search with a non-empty text, its
\* listeners are the same and none is invoked; a search with a non-empty
\* text stores the result sequence of that text in the subject and invokes
\* the window exactly once with it, also when the sequence is empty; and
\* while the program runs nothing but a search with a non-empty text changes
\* what the subject holds.
C20_EmptySearchKeepsResults ==
    /\ [][HandleSearch =>
            IF search_input' = <<>>
            THEN /\ subject_results' = subject_results
                 /\ observers' = observers
                 /\ calls' = <<>>
            ELSE /\ subject_results' =
                       search_results(lower(search_input'), load_restaurants)
                 /\ Len(calls') = 1
                 /\ calls'[1].listener = "app"
                 /\ calls'[1].message = subject_results'
                 /\ search_list'.visible]_vars
    /\ [][(running /\ running' /\ subject_results' # subject_results) =>
            /\ HandleSearch
            /\ search_input' # <<>>]_vars

\* the text was emptied after a search that found something: no listener
\* was invoked, the subject still holds what that search found and the
\* result list is hidden and empty
C20_Witness ==
    /\ running
    /\ page = "main"
    /\ search_input = <<>>
    /\ calls = <<>>
    /\ subject_results # <<>>
    /\ search_list = HiddenList

====
